---- MODULE Spec2Model ----
(***************************************************************************)
(* Model of the noise-filter demo: the recorder components                 *)
(* (SimpleAudioRecorder, AudioRecorder), the shared audio library          *)
(* (processFloat32Array, float32ArrayToWavBlob, decodeAndResampleToFloat32,*)
(* reprocessBlob), the two Home pages and SimpleAudioPlayer.               *)
(*                                                                         *)
(* Numbers.  A float sample is the exact rational <<num, den>> (den > 0).  *)
(* Captured samples are thousandths <<m, 1000>>; a decoded PCM16 sample v  *)
(* is <<v, 32768>>.  Float32 rounding is not modelled.  The non-finite      *)
(* floats have denominator 0: NaN is <<0, 0>>, +Infinity <<1, 0>> and       *)
(* -Infinity <<-1, 0>>.  TLC's integers are                                 *)
(* 32 bits wide, so products that would exceed them are computed by        *)
(* MulDiv, which gives the exact quotient.                                 *)
(***************************************************************************)
EXTENDS Integers, Sequences, FiniteSets, TLC

\* ---------------------------------------------------------------- bounds
\* samples per script-processor block (4096 in the source)
BlockLen == 2
\* block callbacks in one behaviour
MaxBlocks == 2
\* clicks on "Start Recording" in one behaviour
MaxStarts == 2
\* recorder component instances mounted in one behaviour
MaxMounts == 2
\* reprocess requests in one behaviour
MaxReprocess == 3
\* browser failures in one behaviour: a rejected or mis-rated start, a throwing
\* finalization, a rejected reprocess
MaxFaults == 1
\* calls on the library functions in one behaviour of SpecLibrary
MaxCalls == 2

\* ------------------------------------------------------- program constants
SAMPLE_RATE == 48000
PcmPositiveScale == 32767
PcmNegativeScale == 32768
DecodeScale == 32768
WavHeaderBytes == 44

\* ------------------------------------------------------------- arithmetic
Abs(x) == IF x < 0 THEN -x ELSE x

Min2(a, b) == IF a < b THEN a ELSE b

RECURSIVE MulDivQR(_, _, _)
\* <<q, r>> with a * b = q * c + r and 0 <= r < c, for a >= 0, b >= 0, 0 < c < 2^30
MulDivQR(a, b, c) ==
    IF b = 0 THEN <<0, 0>>
    ELSE CHOOSE qr \in
             { LET d2 == 2 * h[2]
                   q2 == 2 * h[1] + (d2 \div c)
                   r2 == d2 % c
                   bit == b % 2
                   r3 == r2 + bit * (a % c)
               IN  <<q2 + bit * (a \div c) + (r3 \div c), r3 % c>> :
               h \in {MulDivQR(a, b \div 2, c)} } : TRUE

\* floor(a * b / c)
MulDiv(a, b, c) == MulDivQR(a, b, c)[1]

\* ceil(a * b / c)
CeilMulDiv(a, b, c) ==
    LET qr == MulDivQR(a, b, c) IN IF qr[2] = 0 THEN qr[1] ELSE qr[1] + 1

RECURSIVE SumAbs(_)
SumAbs(buf) == IF buf = <<>> THEN 0 ELSE Abs(Head(buf)[1]) + SumAbs(Tail(buf))

RECURSIVE Flatten(_)
\* the chunks laid end to end in list order
Flatten(chunks) == IF chunks = <<>> THEN <<>> ELSE Head(chunks) \o Flatten(Tail(chunks))

\* ------------------------------------------------- lib/audio: adaptive engine
\* intensity is held in twentieths, the finest slider step: t = 10 is the slider
\* value 0.5
voiceNumerator(t) == 60 - t
noiseNumerator(t) == 30 - t

\* amplitude > voiceThreshold, with voiceThreshold = avg * (1.5 - 0.5 * intensity)
AboveVoice(a, n, sum, t) == a * n * 40 > sum * voiceNumerator(t)

\* a noise test that also passes an amplitude equal to the threshold
AboveNoiseInclusive(a, n, sum, t) == a * n * 100 >= sum * noiseNumerator(t)

\* amplitude > noiseThreshold, with noiseThreshold = avg * (0.3 - 0.2 * intensity)
AboveNoise(a, n, sum, t) == a * n * 100 > sum * noiseNumerator(t)

\* the multiplier of a sample, in ten-thousandths
AdaptiveGain(a, n, sum, t) ==
    IF AboveVoice(a, n, sum, t) THEN 11000
    ELSE IF AboveNoise(a, n, sum, t) THEN 10000 - (5000 + 200 * t)
    ELSE 10000 - (8000 + 95 * t)

\* the non-finite floats
NaN == <<0, 0>>
PlusInfinity == <<1, 0>>
MinusInfinity == <<-1, 0>>

NonFinite(s) == s[2] = 0

\* with a non-finite sample in the buffer avgAmplitude is NaN or Infinity and so
\* are both thresholds: no amplitude is above either, every sample takes the
\* last branch, and a non-finite sample times the positive multiplier is itself
processFloat32ArrayNonFinite(inputData, t) ==
    [i \in 1..Len(inputData) |->
        IF NonFinite(inputData[i]) THEN inputData[i]
        ELSE <<inputData[i][1] * (10000 - (8000 + 95 * t)), inputData[i][2] * 10000>>]

processFloat32Array(inputData, t) ==
    LET n   == Len(inputData)
        sum == SumAbs(inputData)
    IN  IF \E i \in 1..n : NonFinite(inputData[i])
        THEN processFloat32ArrayNonFinite(inputData, t)
        ELSE [i \in 1..n |->
                <<inputData[i][1] * AdaptiveGain(Abs(inputData[i][1]), n, sum, t),
                  inputData[i][2] * 10000>>]

\* ------------------------------------------------------ lib/audio: WAV codec
\* a quantizer without the clamp: the scaled value is stored modulo 2^16
QuantizeWrap(s) ==
    LET v == IF s[1] < 0 THEN -MulDiv(-s[1], PcmNegativeScale, s[2])
             ELSE MulDiv(s[1], PcmPositiveScale, s[2])
    IN  ((v + 32768) % 65536) - 32768

\* clamp to [-1, 1], scale by 0x8000 below zero and by 0x7FFF otherwise,
\* setInt16 discards the fraction
Quantize(s) ==
    IF s[1] >= s[2] THEN PcmPositiveScale
    ELSE IF s[1] <= -s[2] THEN -PcmNegativeScale
    ELSE IF s[1] < 0 THEN -MulDiv(-s[1], PcmNegativeScale, s[2])
    ELSE MulDiv(s[1], PcmPositiveScale, s[2])

\* an encoder that writes the whole file length into the RIFF size field
float32ArrayToWavBlobWholeSize(audioData, sampleRate) ==
    [ chunkId       |-> "RIFF",
      fileSize      |-> 44 + 2 * Len(audioData),
      format        |-> "WAVE",
      subchunk1Id   |-> "fmt ",
      subchunk1Size |-> 16,
      audioFormat   |-> 1,
      numChannels   |-> 1,
      sampleRate    |-> sampleRate,
      byteRate      |-> sampleRate * 2,
      blockAlign    |-> 2,
      bitsPerSample |-> 16,
      subchunk2Id   |-> "data",
      dataSize      |-> 2 * Len(audioData),
      pcm           |-> [i \in 1..Len(audioData) |-> Quantize(audioData[i])] ]

\* a container is its header fields, in file order, and the 16-bit words that
\* follow the header
float32ArrayToWavBlob(audioData, sampleRate) ==
    LET numChannels    == 1
        bytesPerSample == 2
        blockAlign     == numChannels * bytesPerSample
        dataSize       == Len(audioData) * bytesPerSample
    IN  [ chunkId       |-> "RIFF",
          fileSize      |-> 36 + dataSize,
          format        |-> "WAVE",
          subchunk1Id   |-> "fmt ",
          subchunk1Size |-> 16,
          audioFormat   |-> 1,
          numChannels   |-> numChannels,
          sampleRate    |-> sampleRate,
          byteRate      |-> sampleRate * blockAlign,
          blockAlign    |-> blockAlign,
          bitsPerSample |-> 16,
          subchunk2Id   |-> "data",
          dataSize      |-> dataSize,
          pcm           |-> [i \in 1..Len(audioData) |-> Quantize(audioData[i])] ]

ByteLength(blob) == WavHeaderBytes + 2 * Len(blob.pcm)

\* ------------------------------------------------- lib/audio: decode, resample
\* a decoder that reads the samples as unsigned 16-bit words
decodeAudioDataUnsigned(blob) ==
    [i \in 1..Min2(blob.dataSize \div 2, Len(blob.pcm)) |->
        <<blob.pcm[i] % 65536, DecodeScale>>]

\* the browser's decoder reads the dataSize bytes of the data chunk, PCM16
\* sample v as v / 32768
decodeAudioData(blob) ==
    [i \in 1..Min2(blob.dataSize \div 2, Len(blob.pcm)) |-> <<blob.pcm[i], DecodeScale>>]

RECURSIVE Pow2Below(_)
\* the largest power of two that is at most n, for n >= 1
Pow2Below(n) == IF n < 2 THEN 1 ELSE 2 * Pow2Below(n \div 2)

\* SAMPLE_RATE / audioBuffer.sampleRate is a double.  48000 / 44100 = 160/147 has
\* no finite binary expansion: the nearest double is 160/147 + 65 / (147 * 2^52).
\* The operator gives that 65; the quotient is exact for 48000
QuotientExcess(sampleRate) == IF sampleRate = 44100 THEN 65 ELSE 0

\* Math.ceil(audioBuffer.length * (SAMPLE_RATE / audioBuffer.sampleRate)), in
\* double arithmetic.  When length * 160/147 is not an integer it lies at least
\* 1/147 from one and the rounding cannot change the ceiling.  When it is an
\* integer N, the product with the double quotient exceeds N by length * 65 /
\* (147 * 2^52) and is rounded to the nearest double: to N when the excess is at
\* most half the spacing of the doubles above N, which is Pow2Below(N) / 2^52,
\* and to a double above N otherwise, whose ceiling is N + 1
lengthInSamples(length, sampleRate) ==
    LET qr == MulDivQR(length, SAMPLE_RATE, sampleRate)
    IN  IF qr[2] # 0 THEN qr[1] + 1
        ELSE IF qr[1] > 0 /\ 2 * QuotientExcess(sampleRate) * length > 147 * Pow2Below(qr[1])
             THEN qr[1] + 1
             ELSE qr[1]

\* OfflineAudioContext rendering into lengthInSamples frames; the kernel is the
\* browser's, modelled as a sample-and-hold
Resample(buf, nativeRate) ==
    LET len == lengthInSamples(Len(buf), nativeRate)
    IN  [i \in 1..len |->
            LET j == 1 + MulDiv(i - 1, nativeRate, SAMPLE_RATE)
            IN  IF j <= Len(buf) THEN buf[j] ELSE <<0, DecodeScale>>]

\* the interleaved frames of a decoded file as one sequence per channel
Deinterleave(samples, numberOfChannels) ==
    [c \in 1..numberOfChannels |->
        [i \in 1..(Len(samples) \div numberOfChannels) |->
            samples[(i - 1) * numberOfChannels + c]]]

\* the AudioBuffer decodeAudioData resolves to
AudioBufferOf(blob) ==
    [ sampleRate       |-> blob.sampleRate,
      numberOfChannels |-> blob.numChannels,
      length           |-> Len(decodeAudioData(blob)) \div blob.numChannels,
      channels         |-> Deinterleave(decodeAudioData(blob), blob.numChannels) ]

RECURSIVE SumChannels(_, _)
\* the numerators of frame i added over the channels (one denominator throughout)
SumChannels(channels, i) ==
    IF channels = <<>> THEN 0 ELSE Head(channels)[i][1] + SumChannels(Tail(channels), i)

\* out[i] += ch[i] / buffer.numberOfChannels, over the channels
mixDownToMono(buffer) ==
    [i \in 1..buffer.length |->
        <<SumChannels(buffer.channels, i),
          buffer.channels[1][i][2] * buffer.numberOfChannels>>]

\* splitter.connect(merger, i, 0) for every channel i: the connections made to one
\* input of a node are summed
MergerInput(buffer) ==
    IF buffer.numberOfChannels = 1 THEN buffer.channels[1]
    ELSE [i \in 1..buffer.length |->
             <<SumChannels(buffer.channels, i), buffer.channels[1][i][2]>>]

\* decodeAndResampleToFloat32 after decodeAudioData
normalizeAudioBuffer(audioBuffer) ==
    IF audioBuffer.sampleRate = SAMPLE_RATE
    THEN IF audioBuffer.numberOfChannels = 1
         THEN audioBuffer.channels[1]
         ELSE mixDownToMono(audioBuffer)
    ELSE Resample(MergerInput(audioBuffer), audioBuffer.sampleRate)

decodeAndResampleToFloat32(blob) == normalizeAudioBuffer(AudioBufferOf(blob))

reprocessBlob(originalBlob, t) ==
    float32ArrayToWavBlob(
        processFloat32Array(decodeAndResampleToFloat32(originalBlob), t),
        SAMPLE_RATE)

\* ------------------------------------- AudioRecorder: explicit-mode engine
\* parameters: nT and pT in thousandths, rS in twentieths, hp in two-hundredths;
\* samples are thousandths (the capture unit)
\* a gate without the transition zone
GateFactorHard(a, p) == IF a < p.nT THEN <<p.rS, 20>> ELSE <<1, 1>>

GateFactor(a, p) ==
    IF a < p.nT THEN <<p.rS, 20>>
    ELSE IF a < p.pT
         THEN <<p.rS * (p.pT - p.nT) + (a - p.nT) * (20 - p.rS), 20 * (p.pT - p.nT)>>
         ELSE <<1, 1>>

\* a high-pass that also filters the first sample, against a previous sample of 0
HighPassFromStart(gated, f, prev, i, p) ==
    IF p.hp > 0
    THEN <<gated[1] * (200 - p.hp) - prev * p.hp * f[2], gated[2] * 200>>
    ELSE gated

HighPass(gated, f, prev, i, p) ==
    IF i > 1 /\ p.hp > 0
    THEN <<gated[1] * (200 - p.hp) - prev * p.hp * f[2], gated[2] * 200>>
    ELSE gated

Limiter(s, a, p) ==
    IF a > p.pT /\ a > 800
    THEN <<(IF s[1] < 0 THEN -1 ELSE 1) * (800 + a), 2000>>
    ELSE s

\* a - b * highPassStrength in float arithmetic when a or b is not finite (a is
\* the gated sample times the positive filterCoeff)
NonFiniteDifference(a, b) ==
    IF a = NaN \/ b = NaN THEN NaN
    ELSE IF NonFinite(a) /\ NonFinite(b) THEN (IF a = b THEN NaN ELSE a)
    ELSE IF NonFinite(a) THEN a
    ELSE <<-b[1], 0>>

\* sample i of the loop body when inputData[i], or the inputData[i - 1] the
\* high-pass reads, is not finite: a non-finite amplitude fails both gate tests,
\* the limiter tests the raw amplitude and takes its sign from the filtered sample
processAudioWithRNNoiseNonFinite(inputData, i, p) ==
    LET cur      == inputData[i]
        filtered == IF i > 1 /\ p.hp > 0
                    THEN NonFiniteDifference(cur, inputData[i - 1])
                    ELSE cur
        sign     == IF filtered # NaN /\ filtered[1] < 0 THEN -1 ELSE 1
    IN  IF NonFinite(cur)
        THEN IF cur = NaN THEN filtered ELSE <<sign, 0>>
        ELSE IF Abs(cur[1]) > p.pT /\ Abs(cur[1]) > 800
             THEN <<sign * (800 + Abs(cur[1])), 2000>>
             ELSE filtered

processAudioWithRNNoise(inputData, p) ==
    [i \in 1..Len(inputData) |->
        IF NonFinite(inputData[i]) \/ (i > 1 /\ p.hp > 0 /\ NonFinite(inputData[i - 1]))
        THEN processAudioWithRNNoiseNonFinite(inputData, i, p)
        ELSE LET m     == inputData[i][1]
                 a     == Abs(m)
                 f     == GateFactor(a, p)
                 gated == <<m * f[1], inputData[i][2] * f[2]>>
                 prev  == IF i > 1 THEN inputData[i - 1][1] ELSE 0
             IN  Limiter(HighPass(gated, f, prev, i, p), a, p)]

\* ------------------------------------------------------------ parameters
DefaultParams == [t |-> 10, nT |-> 5, rS |-> 6, hp |-> 4, pT |-> 15]
CleanCrisp    == [t |-> 10, nT |-> 3, rS |-> 4, hp |-> 2, pT |-> 20]
Aggressive    == [t |-> 10, nT |-> 8, rS |-> 10, hp |-> 6, pT |-> 25]
Presets       == {CleanCrisp, Aggressive, DefaultParams}

\* the preset buttons the model clicks
PresetChoices == {Aggressive, DefaultParams}

\* slider positions the model tries: 0.5 and 0.9, which every intensity slider
\* has, and 0.95, which the slider of NeuralAudioRecorder (min 0.1, max 0.95, step
\* 0.05) has besides
IntensityChoices == {10, 18}
NeuralIntensityChoices == IntensityChoices \cup {19}

\* the blocks the capture device delivers, samples in thousandths
Block == { [k \in 1..BlockLen |-> <<-900, 1000>>],
           [k \in 1..BlockLen |-> <<4 * k, 1000>>] }

\* sample rates an AudioContext may report
ContextRates == {SAMPLE_RATE, 44100}

VARIABLES
    variant,      \* which application: "Simple" (page.tsx Home with SimpleAudioRecorder
                  \* and SimpleAudioPlayer) or "Audio" (Home with AudioRecorder, AudioPlayer)
    audioData,    \* Home state: <<>> for null, else <<[original, processed]>>
    step,         \* Home state of the "Audio" application: "record" or "playback"
    params,       \* Home state: intensity (t) and the four explicit parameters
    recs,         \* every recorder instance created so far
    mounted,      \* the index of the mounted recorder instance, 0 when none is
    player,       \* SimpleAudioPlayer state
    inflight,     \* reprocessBlob calls awaiting their result (stored: history, the
                  \* original container Home held when the call was made)
    session,      \* history: the blocks of the session that produced audioData
    reproLog,     \* history: [stored, t, result] of the reprocess calls that
                  \* succeeded, in the order they finished
    neural,       \* NeuralAudioRecorder: the engine hook's recordingState and the
                  \* combineChunksAndComplete calls awaiting their fetches
    probe,        \* the calls made on the library functions, one record per call
    nStarts, nBlocks, nReprocess, nFaults

vars == <<variant, audioData, step, params, recs, mounted, player, inflight,
          session, reproLog, neural, probe, nStarts, nBlocks, nReprocess, nFaults>>

\* ---------------------------------------------------------------- recorder
FreshRecorder ==
    [ isRecording       |-> FALSE,
      isProcessing      |-> FALSE,
      error             |-> "none",
      pc                |-> "idle",        \* "starting" while startRecording awaits
      closure           |-> DefaultParams, \* parameters of the render that was clicked
      originalAudioData |-> <<>>,
      processedChunks   |-> <<>>,
      audioContextRef   |-> 0,
      contexts          |-> <<>>,          \* [state, rate] of the AudioContexts in use
      handlers          |-> <<>>,          \* installed onaudioprocess closures
      recorder          |-> "none",        \* state of the MediaRecorder in mediaRecorderRef
      stream            |-> "none",        \* the stream the onstop closure holds
      leaked            |-> 0,             \* live streams of failed start attempts
      arrived           |-> <<>>,          \* history: blocks that arrived while the
      arrivedOut        |-> <<>>,          \*   MediaRecorder was recording, their outputs
      arrivedWith       |-> <<>>,          \*   and the parameters each was processed with
      completions       |-> 0 ]            \* history: onRecordingComplete calls made for
                                           \*   the MediaRecorder in mediaRecorderRef

FreshPlayer == [ isReprocessing |-> FALSE, currentAudio |-> "processed",
                 reprocessedBlob |-> <<>>, gen |-> 0 ]

\* recordingState of useMurmubaraEngine (isRecording, chunks), whether the engine
\* still owes the chunk it was filling when it was stopped, and the
\* combineChunksAndComplete calls awaiting their fetches; history of the latest start:
\* how many chunks the engine produced since, and the number of chunks of every
\* payload onRecordingComplete was called with for it
FreshNeural == [ isRecording |-> FALSE, chunks |-> <<>>, owes |-> FALSE,
                 combines |-> <<>>, error |-> "none",
                 produced |-> 0, delivered |-> <<>> ]

Engine(block, p) ==
    IF variant = "Simple" THEN processFloat32Array(block, p.t)
    ELSE processAudioWithRNNoise(block, p)

\* the Home of page.tsx, whichever recorder component it renders
PageHome == variant \in {"Simple", "Neural"}

ShowsPlayer ==
    IF PageHome THEN audioData # <<>>
    ELSE step = "playback" /\ audioData # <<>>

ShowsRecorder ==
    IF PageHome THEN audioData = <<>> ELSE step = "record"

\* the record button: disabled={isProcessing}, onClick={isRecording ? stop : start}
ButtonEnabled(r) == ~r.isProcessing

\* startRecording up to its first await
startRecordingClick(r, p) ==
    [r EXCEPT !.error = "none", !.isProcessing = TRUE, !.pc = "starting", !.closure = p]

\* the catch block of startRecording; held is the number of streams the failed
\* attempt had obtained
startRecordingCatch(r, held) ==
    [r EXCEPT !.error = "start", !.isProcessing = FALSE, !.pc = "idle",
              !.leaked = @ + held]

\* audioContextRef.current = new AudioContext({ sampleRate }); AudioRecorder keeps
\* the context it has
WithContext(r, rate) ==
    IF variant = "Audio" /\ r.audioContextRef # 0 THEN r
    ELSE [r EXCEPT !.contexts = Append(@, [state |-> "running", rate |-> rate]),
                   !.audioContextRef = Len(r.contexts) + 1]

\* the sample-rate check of SimpleAudioRecorder; AudioRecorder has none
RateRejected(rate) == variant = "Simple" /\ rate # SAMPLE_RATE

\* createMediaStreamSource on a context that was closed throws
SourceRejected(r) == r.contexts[r.audioContextRef].state # "running"

\* createScriptProcessor, source.connect, scriptProcessor.onaudioprocess = ...
WithNode(r) ==
    [r EXCEPT !.handlers = Append(@, [params |-> r.closure, ctx |-> r.audioContextRef])]

\* new MediaRecorder, onstop = ..., start(), setIsRecording(true), setIsProcessing(false)
WithRecorder(r) ==
    [r EXCEPT !.recorder = "recording", !.stream = "live",
              !.isRecording = TRUE, !.isProcessing = FALSE, !.pc = "idle",
              !.arrived = <<>>, !.arrivedOut = <<>>, !.arrivedWith = <<>>,
              !.completions = 0]

\* initializeRNNoise of AudioRecorder reports its fallback through setError
WithInitNotice(r) == IF variant = "Audio" THEN [r EXCEPT !.error = "info"] ELSE r

\* startRecording after its awaits; outcome is what the browser does.  A context of
\* SimpleAudioRecorder that never gets a script processor is not tracked.
startRecordingResume(r, outcome, rate) ==
    LET r0 == WithInitNotice(r)
    IN  IF outcome = "denied" THEN startRecordingCatch(r0, 0)
        ELSE IF RateRejected(rate) \/ (variant = "Simple" /\ outcome = "resumeFails")
        THEN startRecordingCatch(r0, 1)
        ELSE LET r1 == WithContext(r0, rate)
             IN  IF outcome = "resumeFails" \/ SourceRejected(r1)
                 THEN startRecordingCatch(r1, 1)
                 ELSE IF outcome = "recorderFails"
                      THEN startRecordingCatch(WithNode(r1), 1)
                      ELSE WithRecorder(WithNode(r1))

stopRecording(r) ==
    IF r.recorder # "none" /\ r.isRecording
    THEN [r EXCEPT !.recorder = "stopping", !.isRecording = FALSE, !.isProcessing = TRUE]
    ELSE r

\* the script processor of handler h may deliver a block: its context runs, or
\* close() was called on it and callbacks queued before may still arrive
NodeFires(r, h) == r.contexts[r.handlers[h].ctx].state \in {"running", "closing"}

\* a handler whose engine keeps the last sample of the block before: the block is
\* processed with that sample in front, and the output for it is dropped
onaudioprocessCarry(r, h, inputData) ==
    LET before == IF r.originalAudioData = <<>> THEN <<>>
                  ELSE r.originalAudioData[Len(r.originalAudioData)]
        carry  == IF before = <<>> THEN <<>> ELSE <<before[Len(before)]>>
        full   == Engine(carry \o inputData, r.handlers[h].params)
        processedData == SubSeq(full, Len(carry) + 1, Len(full))
        live == r.recorder = "recording"
    IN  [r EXCEPT !.originalAudioData = Append(@, inputData),
                  !.processedChunks = Append(@, processedData),
                  !.arrived = IF live THEN Append(@, inputData) ELSE @,
                  !.arrivedOut = IF live THEN Append(@, processedData) ELSE @,
                  !.arrivedWith = IF live THEN Append(@, r.handlers[h].params) ELSE @]

\* a handler that keeps the processed block only while the MediaRecorder records
onaudioprocessUnpaired(r, h, inputData) ==
    LET processedData == Engine(inputData, r.handlers[h].params)
        live == r.recorder = "recording"
    IN  [r EXCEPT !.originalAudioData = Append(@, inputData),
                  !.processedChunks = IF live THEN Append(@, processedData) ELSE @,
                  !.arrived = IF live THEN Append(@, inputData) ELSE @,
                  !.arrivedOut = IF live THEN Append(@, processedData) ELSE @,
                  !.arrivedWith = IF live THEN Append(@, r.handlers[h].params) ELSE @]

onaudioprocess(r, h, inputData) ==
    LET processedData == Engine(inputData, r.handlers[h].params)
        live == r.recorder = "recording"
    IN  [r EXCEPT !.originalAudioData = Append(@, inputData),
                  !.processedChunks = Append(@, processedData),
                  !.arrived = IF live THEN Append(@, inputData) ELSE @,
                  !.arrivedOut = IF live THEN Append(@, processedData) ELSE @,
                  !.arrivedWith = IF live THEN Append(@, r.handlers[h].params) ELSE @]

\* the buffers onstop builds from the accumulators
originalBuffer(r) == Flatten(r.originalAudioData)
processedBuffer(r) == Flatten(r.processedChunks)

onstopData(r) ==
    [ original  |-> float32ArrayToWavBlob(originalBuffer(r), SAMPLE_RATE),
      processed |-> float32ArrayToWavBlob(processedBuffer(r), SAMPLE_RATE) ]

CloseContext(ctxs, k) ==
    IF k # 0 /\ ctxs[k].state = "running" THEN [ctxs EXCEPT ![k].state = "closing"]
    ELSE ctxs

\* onstop after its try block: setIsProcessing(false), cleanup, clear
onstopCleanup(r) ==
    [r EXCEPT !.isProcessing = FALSE,
              !.stream = "stopped",
              !.recorder = "inactive",
              !.contexts = CloseContext(@, r.audioContextRef),
              !.originalAudioData = <<>>,
              !.processedChunks = <<>>,
              !.arrived = <<>>, !.arrivedOut = <<>>, !.arrivedWith = <<>>]

\* an onstop whose cleanup sits inside the try block
onstopCleanupInTry(r, ok) ==
    IF ok THEN onstopCleanup(r)
    ELSE [r EXCEPT !.error = "process", !.isProcessing = FALSE, !.recorder = "inactive"]

\* an onstop whose setIsProcessing(false) sits at the end of the try block
onstopFlagInTry(r, ok) ==
    IF ok THEN onstopCleanup([r EXCEPT !.completions = @ + 1])
    ELSE [onstopCleanup(r) EXCEPT !.error = "process", !.isProcessing = TRUE]

onstop(r, ok) ==
    onstopCleanup([r EXCEPT !.error = IF ok THEN @ ELSE "process",
                            !.completions = IF ok THEN @ + 1 ELSE @])

\* ------------------------------------------------------------------- Home
MountRecorder == /\ recs' = Append(recs, FreshRecorder)
                 /\ mounted' = Len(recs) + 1

\* handleRecordingComplete: the player is shown, the recorder unmounted
handleRecordingComplete(data) ==
    /\ audioData' = <<data>>
    /\ step' = IF variant = "Audio" THEN "playback" ELSE step
    /\ mounted' = 0
    /\ player' = IF PageHome /\ ~ShowsPlayer
                 THEN [FreshPlayer EXCEPT !.gen = player.gen + 1]
                 ELSE player

Init ==
    /\ variant \in {"Simple", "Audio", "Neural"}
    /\ audioData = <<>>
    /\ step = "record"
    /\ params = DefaultParams
    /\ recs = <<FreshRecorder>>
    /\ mounted = 1
    /\ player = FreshPlayer
    /\ inflight = {}
    /\ session = <<>>
    /\ reproLog = <<>>
    /\ neural = FreshNeural
    /\ probe = <<>>
    /\ nStarts = 0 /\ nBlocks = 0 /\ nReprocess = 0 /\ nFaults = 0

\* ---------------------------------------------------------------- actions
ClickStart ==
    /\ variant # "Neural"
    /\ mounted # 0 /\ ShowsRecorder
    /\ ButtonEnabled(recs[mounted]) /\ ~recs[mounted].isRecording
    /\ nStarts < MaxStarts
    /\ recs' = [recs EXCEPT ![mounted] = startRecordingClick(@, params)]
    /\ nStarts' = nStarts + 1
    /\ UNCHANGED <<variant, neural, probe, audioData, step, params, mounted, player, inflight,
                   session, reproLog, nBlocks, nReprocess, nFaults>>

\* a start that the browser lets through at the requested rate
CleanStart(outcome, rate) == outcome = "ok" /\ rate = SAMPLE_RATE

Faulty(clean) == IF clean THEN nFaults' = nFaults
                 ELSE nFaults < MaxFaults /\ nFaults' = nFaults + 1

StartResume(i, outcome, rate) ==
    /\ recs[i].pc = "starting"
    /\ Faulty(CleanStart(outcome, rate))
    /\ recs' = [recs EXCEPT ![i] = startRecordingResume(@, outcome, rate)]
    /\ UNCHANGED <<variant, neural, probe, audioData, step, params, mounted, player, inflight,
                   session, reproLog, nStarts, nBlocks, nReprocess>>

ClickStop ==
    /\ mounted # 0 /\ ShowsRecorder
    /\ ButtonEnabled(recs[mounted]) /\ recs[mounted].isRecording
    /\ recs' = [recs EXCEPT ![mounted] = stopRecording(@)]
    /\ UNCHANGED <<variant, neural, probe, audioData, step, params, mounted, player, inflight,
                   session, reproLog, nStarts, nBlocks, nReprocess, nFaults>>

OnAudioProcess(i, h, inputData) ==
    /\ NodeFires(recs[i], h)
    /\ nBlocks < MaxBlocks
    /\ recs' = [recs EXCEPT ![i] = onaudioprocess(@, h, inputData)]
    /\ nBlocks' = nBlocks + 1
    /\ UNCHANGED <<variant, neural, probe, audioData, step, params, mounted, player, inflight,
                   session, reproLog, nStarts, nReprocess, nFaults>>

\* the MediaRecorder's stop event; ok is whether the try block ran through
OnStop(i, ok) ==
    /\ recs[i].recorder = "stopping"
    /\ Faulty(ok)
    /\ recs' = [recs EXCEPT ![i] = onstop(@, ok)]
    /\ IF ok THEN /\ handleRecordingComplete(onstopData(recs[i]))
                  /\ session' = <<[arrived |-> recs[i].arrived,
                                   arrivedOut |-> recs[i].arrivedOut,
                                   arrivedWith |-> recs[i].arrivedWith]>>
       ELSE UNCHANGED <<audioData, step, mounted, player, session>>
    /\ UNCHANGED <<variant, neural, probe, params, inflight, reproLog, nStarts, nBlocks, nReprocess>>

\* --- Home of the "Simple" application (page.tsx)
resetRecording ==
    /\ PageHome /\ audioData # <<>>
    /\ Len(recs) < MaxMounts
    /\ audioData' = <<>>
    /\ session' = <<>>
    /\ MountRecorder
    /\ player' = [FreshPlayer EXCEPT !.gen = player.gen]
    /\ neural' = [FreshNeural EXCEPT !.combines = neural.combines,
                                     !.produced = neural.produced,
                                     !.delivered = neural.delivered]
    /\ UNCHANGED <<variant, probe, step, params, inflight, reproLog, nStarts,
                   nBlocks, nReprocess, nFaults>>

\* --- Home of the "Audio" application: tabs and "Record New Audio"
TabRecord ==
    /\ variant = "Audio" /\ step = "playback"
    /\ Len(recs) < MaxMounts
    /\ step' = "record"
    /\ MountRecorder
    /\ UNCHANGED <<variant, neural, probe, audioData, params, player, inflight, session, reproLog,
                   nStarts, nBlocks, nReprocess, nFaults>>

TabPlayback ==
    /\ variant = "Audio" /\ step = "record" /\ audioData # <<>>
    /\ step' = "playback"
    /\ mounted' = 0
    /\ UNCHANGED <<variant, neural, probe, audioData, params, recs, player, inflight, session,
                   reproLog, nStarts, nBlocks, nReprocess, nFaults>>

startNewRecording ==
    /\ variant = "Audio" /\ ShowsPlayer
    /\ Len(recs) < MaxMounts
    /\ audioData' = <<>>
    /\ session' = <<>>
    /\ step' = "record"
    /\ MountRecorder
    /\ UNCHANGED <<variant, neural, probe, params, player, inflight, reproLog, nStarts,
                   nBlocks, nReprocess, nFaults>>

\* --- parameter controls
\* NeuralAudioRecorder is on screen
NeuralShown == variant = "Neural" /\ ShowsRecorder /\ mounted # 0

SlidersEnabled ==
    \/ ShowsRecorder /\ mounted # 0 /\ ~recs[mounted].isRecording /\ ~neural.isRecording
    \/ PageHome /\ ShowsPlayer /\ ~player.isReprocessing

\* the positions of the intensity slider on screen
SliderPositions == IF NeuralShown THEN NeuralIntensityChoices ELSE IntensityChoices

setIntensity(v) ==
    /\ PageHome /\ SlidersEnabled
    /\ v # params.t
    /\ params' = [params EXCEPT !.t = v]
    /\ UNCHANGED <<variant, neural, probe, audioData, step, recs, mounted, player, inflight,
                   session, reproLog, nStarts, nBlocks, nReprocess, nFaults>>

PresetClick(p) ==
    /\ variant = "Audio" /\ SlidersEnabled
    /\ p # params
    /\ params' = p
    /\ UNCHANGED <<variant, neural, probe, audioData, step, recs, mounted, player, inflight,
                   session, reproLog, nStarts, nBlocks, nReprocess, nFaults>>

\* --- AudioPlayer: the "Processing Parameters Used" panel
\* (x * 100).toFixed(0) of the non-negative x = num / den: the nearest integer,
\* the larger one at a tie
ToFixed0(num, den) == (2 * num * 100 + den) \div (2 * den)

\* the four percentages the panel shows for the props Home passes
ParameterDisplay(p) ==
    [ noiseThreshold        |-> ToFixed0(p.nT, 1000),
      reductionStrength     |-> ToFixed0(p.rS, 20),
      highPassStrength      |-> ToFixed0(p.hp, 200),
      preservationThreshold |-> ToFixed0(p.pT, 1000) ]

\* Home renders AudioPlayer with its current parameter state
AudioPlayerShown == variant = "Audio" /\ ShowsPlayer

\* --- SimpleAudioPlayer
PlayerMounted == PageHome /\ ShowsPlayer

\* reprocessedBlob || audioData.processed
processedShown == IF player.reprocessedBlob # <<>> THEN player.reprocessedBlob[1]
                  ELSE audioData[1].processed

getAudioBlob ==
    IF player.currentAudio = "original" THEN audioData[1].original ELSE processedShown

toggleAudio(type) ==
    /\ PlayerMounted
    /\ type # player.currentAudio
    /\ player' = [player EXCEPT !.currentAudio = type]
    /\ UNCHANGED <<variant, neural, probe, audioData, step, params, recs, mounted, inflight,
                   session, reproLog, nStarts, nBlocks, nReprocess, nFaults>>

\* a handleReprocess that feeds the container being shown as processed back in
handleReprocessCallChained ==
    [gen |-> player.gen, original |-> processedShown, t |-> params.t]

\* handleReprocess up to its await: the call reads audioData.original and intensity
handleReprocessCall ==
    [gen |-> player.gen, original |-> audioData[1].original, t |-> params.t]

handleReprocessClick ==
    /\ PlayerMounted /\ ~player.isReprocessing
    /\ nReprocess < MaxReprocess
    /\ player' = [player EXCEPT !.isReprocessing = TRUE]
    /\ inflight' = inflight \cup {[call |-> handleReprocessCall,
                                    stored |-> audioData[1].original]}
    /\ nReprocess' = nReprocess + 1
    /\ UNCHANGED <<variant, neural, probe, audioData, step, params, recs, mounted, session,
                   reproLog, nStarts, nBlocks, nFaults>>

\* a handleReprocess whose setIsReprocessing(false) sits inside the try block
handleReprocessFlagInTry(pl, newProcessedBlob, ok) ==
    IF ok THEN [pl EXCEPT !.reprocessedBlob = <<newProcessedBlob>>,
                          !.isReprocessing = FALSE]
    ELSE pl

\* a handleReprocess that keeps the result only while the processed side is selected
handleReprocessIfSelected(pl, newProcessedBlob, ok) ==
    [pl EXCEPT !.reprocessedBlob = IF ok /\ pl.currentAudio = "processed"
                                   THEN <<newProcessedBlob>> ELSE @,
               !.isReprocessing = FALSE]

\* handleReprocess after its await; ok is whether reprocessBlob resolved
handleReprocessSettle(pl, newProcessedBlob, ok) ==
    IF ok THEN [pl EXCEPT !.reprocessedBlob = <<newProcessedBlob>>,
                          !.isReprocessing = FALSE]
    ELSE [pl EXCEPT !.isReprocessing = FALSE]

handleReprocessResume(req, ok) ==
    /\ req \in inflight
    /\ Faulty(ok)
    /\ inflight' = inflight \ {req}
    /\ LET newProcessedBlob == reprocessBlob(req.call.original, req.call.t)
       IN  /\ player' = IF PlayerMounted /\ player.gen = req.call.gen
                        THEN handleReprocessSettle(player, newProcessedBlob, ok)
                        ELSE player
           /\ reproLog' = IF ok THEN Append(reproLog, [stored |-> req.stored,
                                                       t |-> req.call.t,
                                                       result |-> newProcessedBlob])
                          ELSE reproLog
    /\ UNCHANGED <<variant, neural, probe, audioData, step, params, recs, mounted, session,
                   nStarts, nBlocks, nReprocess>>

\* --- NeuralAudioRecorder (the recorder page.tsx imports).  The engine behind
\* useMurmubaraEngine is a library: what it records is an input of the model.
\* the bytes of a container as 16-bit little-endian words
Int16(w) == IF w >= 32768 THEN w - 65536 ELSE w

U32Words(x) == <<Int16(x % 65536), Int16(x \div 65536)>>

TagWords(tag) ==
    CASE tag = "RIFF" -> <<18770, 17990>>
      [] tag = "WAVE" -> <<16727, 17750>>
      [] tag = "fmt " -> <<28006, 8308>>
      [] tag = "data" -> <<24932, 24948>>

HeaderWords(blob) ==
    TagWords(blob.chunkId) \o U32Words(blob.fileSize) \o TagWords(blob.format)
    \o TagWords(blob.subchunk1Id) \o U32Words(blob.subchunk1Size)
    \o <<blob.audioFormat, blob.numChannels>>
    \o U32Words(blob.sampleRate) \o U32Words(blob.byteRate)
    \o <<blob.blockAlign, blob.bitsPerSample>>
    \o TagWords(blob.subchunk2Id) \o U32Words(blob.dataSize)

BlobWords(blob) == HeaderWords(blob) \o blob.pcm

RECURSIVE JoinWords(_)
JoinWords(parts) ==
    IF parts = <<>> THEN <<>> ELSE BlobWords(Head(parts)) \o JoinWords(Tail(parts))

\* new Blob(parts, { type: 'audio/wav' }) over one or more containers: the bytes
\* of the parts end to end, so the header read back is the first part's
NewBlob(parts) == [parts[1] EXCEPT !.pcm = @ \o JoinWords(Tail(parts))]

\* the chunks the engine may hand over: each holds the original recording of a
\* loud block and a processed recording that is a quieter one
NeuralChunks ==
    { [ original  |-> float32ArrayToWavBlob(bc[1], SAMPLE_RATE),
        processed |-> float32ArrayToWavBlob(bc[2], SAMPLE_RATE) ] :
      bc \in {x \in Block \X Block : x[1] # x[2] /\ x[1][1][1] < 0} }

\* the completion effect: runs after a render in which isRecording or
\* chunks.length changed, and calls combineChunksAndComplete with the chunks of
\* that render
completionEffect(before, after) ==
    IF /\ mounted # 0
       /\ (before.isRecording # after.isRecording \/ Len(before.chunks) # Len(after.chunks))
       /\ ~after.isRecording /\ Len(after.chunks) > 0
    THEN [after EXCEPT !.combines = Append(@, [inst |-> mounted, chunks |-> after.chunks,
                                               sess |-> nStarts])]
    ELSE after

\* combineChunksAndComplete once its fetches are done
combineChunksAndComplete(call) ==
    [ original  |-> NewBlob([k \in DOMAIN call.chunks |-> call.chunks[k].original]),
      processed |-> NewBlob([k \in DOMAIN call.chunks |-> call.chunks[k].processed]) ]

RemoveAt(seq, k) == SubSeq(seq, 1, k - 1) \o SubSeq(seq, k + 1, Len(seq))

handleStartRecording(ok) ==
    /\ NeuralShown /\ ~neural.isRecording
    /\ nStarts < MaxStarts
    /\ Faulty(ok)
    /\ nStarts' = nStarts + 1
    /\ neural' = IF ok THEN completionEffect(neural, [neural EXCEPT !.error = "none",
                                                                    !.isRecording = TRUE,
                                                                    !.owes = FALSE,
                                                                    !.produced = 0,
                                                                    !.delivered = <<>>])
                 ELSE [neural EXCEPT !.error = "start", !.produced = 0,
                                     !.delivered = <<>>]
    /\ UNCHANGED <<variant, probe, audioData, step, params, recs, mounted, player,
                   inflight, session, reproLog, nBlocks, nReprocess>>

handleStopRecording ==
    /\ NeuralShown /\ neural.isRecording
    /\ neural' = completionEffect(neural, [neural EXCEPT !.isRecording = FALSE,
                                                         !.owes = TRUE])
    /\ UNCHANGED <<variant, probe, audioData, step, params, recs, mounted, player,
                   inflight, session, reproLog, nStarts, nBlocks, nReprocess, nFaults>>

\* the engine finishes a chunk: while recording, or the one it owes after a stop
NeuralChunk(c) ==
    /\ NeuralShown
    /\ neural.isRecording \/ neural.owes
    /\ nBlocks < MaxBlocks
    /\ nBlocks' = nBlocks + 1
    /\ neural' = completionEffect(neural,
                     [neural EXCEPT !.chunks = Append(@, c),
                                    !.owes = FALSE,
                                    !.produced = @ + 1])
    /\ UNCHANGED <<variant, probe, audioData, step, params, recs, mounted, player,
                   inflight, session, reproLog, nStarts, nReprocess, nFaults>>

\* a combineChunksAndComplete call resumes: onRecordingComplete and
\* clearRecordings, or the catch block when a fetch failed
CombineSettle(k, ok) ==
    /\ k \in DOMAIN neural.combines
    /\ Faulty(ok)
    /\ LET call == neural.combines[k]
           own  == mounted = call.inst
           rest == [neural EXCEPT !.combines = RemoveAt(@, k)]
           done == IF call.sess = nStarts
                   THEN [rest EXCEPT !.delivered = Append(@, Len(call.chunks))]
                   ELSE rest
       IN  IF ok
           THEN /\ handleRecordingComplete(combineChunksAndComplete(call))
                /\ neural' = IF own THEN [done EXCEPT !.chunks = <<>>] ELSE done
           ELSE /\ neural' = IF own THEN [rest EXCEPT !.error = "process"] ELSE rest
                /\ UNCHANGED <<audioData, step, mounted, player>>
    /\ UNCHANGED <<variant, probe, params, recs, inflight, session, reproLog,
                   nStarts, nBlocks, nReprocess>>

StartOutcomes == {"denied", "resumeFails", "recorderFails", "ok"}

NextRecorder ==
    \/ ClickStart
    \/ \E i \in DOMAIN recs, o \in StartOutcomes, rate \in ContextRates :
          StartResume(i, o, rate)
    \/ ClickStop
    \/ \E i \in DOMAIN recs : \E h \in DOMAIN recs[i].handlers, b \in Block :
          OnAudioProcess(i, h, b)
    \/ \E i \in DOMAIN recs, ok \in BOOLEAN : OnStop(i, ok)

NextSimple ==
    \/ resetRecording
    \/ \E v \in SliderPositions : setIntensity(v)
    \/ \E type \in {"original", "processed"} : toggleAudio(type)
    \/ handleReprocessClick
    \/ \E req \in inflight, ok \in BOOLEAN : handleReprocessResume(req, ok)

NextAudio ==
    \/ TabRecord
    \/ TabPlayback
    \/ startNewRecording
    \/ \E p \in PresetChoices : PresetClick(p)

NextNeural ==
    \/ \E ok \in BOOLEAN : handleStartRecording(ok)
    \/ handleStopRecording
    \/ \E c \in NeuralChunks : NeuralChunk(c)
    \/ \E k \in DOMAIN neural.combines, ok \in BOOLEAN : CombineSettle(k, ok)

Next == NextRecorder \/ NextSimple \/ NextAudio \/ NextNeural

Spec == Init /\ [][Next]_vars

\* the stop event of recorder instance i
StopEvent(i) == i \in DOMAIN recs /\ \E ok \in BOOLEAN : OnStop(i, ok)

\* the two applications whose recorder drives a MediaRecorder, without the
\* player's own controls, and with the browser's promise that a MediaRecorder
\* whose stop() was called fires its stop event
InitLive == Init /\ variant # "Neural"

NextLive ==
    \/ NextRecorder
    \/ resetRecording
    \/ \E v \in SliderPositions : setIntensity(v)
    \/ NextAudio

SpecLive ==
    /\ InitLive /\ [][NextLive]_vars
    /\ \A i \in 1..MaxMounts : WF_vars(StopEvent(i))

\* ------------------------------------------------ the library functions alone
\* SpecLibrary calls the codec, the decoder and the engine on chosen inputs and
\* keeps every call in probe.  The engine is called the way the recorders call
\* it: block after block through the installed onaudioprocess handler.

\* sample values in thousandths: both ends of the clamp, values beyond it, values
\* whose scaled product has a fraction
ProbeSamples == {-1100, -1000, -999, -300, -1, 0, 1, 500, 999, 1000, 1100}

Silence(n) == [i \in 1..n |-> <<0, 1000>>]

ProbeBuffers ==
    {<<>>, <<<<1000, 1000>>, <<-1000, 1000>>>>} \cup {<<<<m, 1000>>>> : m \in ProbeSamples}

\* the encode calls: every buffer at the canonical rate, two at another rate
ProbeEncodes ==
    {<<buf, SAMPLE_RATE>> : buf \in ProbeBuffers}
    \cup {<<buf, 44100>> : buf \in {<<>>, <<<<1000, 1000>>, <<-1000, 1000>>>>}}

EncodeCall(buf, rate) ==
    /\ Len(probe) < MaxCalls
    /\ probe' = Append(probe, [op |-> "encode", buffer |-> buf, rate |-> rate,
                               blob |-> float32ArrayToWavBlob(buf, rate),
                               bytes |-> ByteLength(float32ArrayToWavBlob(buf, rate))])
    /\ UNCHANGED <<variant, neural, audioData, step, params, recs, mounted, player,
                   inflight, session, reproLog, nStarts, nBlocks, nReprocess, nFaults>>

\* one second of silence, encoded as the first call; of the result the call
\* keeps the header, the byte length and whether every stored sample is zero
EncodeSilence ==
    /\ probe = <<>>
    /\ LET blob == float32ArrayToWavBlob(Silence(SAMPLE_RATE), SAMPLE_RATE)
       IN  probe' = <<[op |-> "encodeSecond", samples |-> SAMPLE_RATE, rate |-> SAMPLE_RATE,
                       header |-> [blob EXCEPT !.pcm = <<>>],
                       bytes |-> ByteLength(blob),
                       silent |-> blob.pcm = [i \in 1..SAMPLE_RATE |-> 0]]>>
    /\ UNCHANGED <<variant, neural, audioData, step, params, recs, mounted, player,
                   inflight, session, reproLog, nStarts, nBlocks, nReprocess, nFaults>>

\* decode the container an earlier call encoded
DecodeCall(k) ==
    /\ Len(probe) < MaxCalls
    /\ k \in DOMAIN probe /\ probe[k].op = "encode" /\ Len(probe[k].buffer) <= 2
    /\ probe' = Append(probe, [op |-> "decode", buffer |-> probe[k].buffer,
                               blob |-> probe[k].blob,
                               decoded |-> decodeAndResampleToFloat32(probe[k].blob)])
    /\ UNCHANGED <<variant, neural, audioData, step, params, recs, mounted, player,
                   inflight, session, reproLog, nStarts, nBlocks, nReprocess, nFaults>>

\* the blocks the engine is fed, samples in thousandths
ProbeBlocks ==
    { <<>>,
      <<<<200, 1000>>, <<80, 1000>>, <<20, 1000>>>>,
      <<<<500, 1000>>, <<300, 1000>>>>,
      <<<<-900, 1000>>, <<-900, 1000>>>>,
      <<<<4, 1000>>, <<8, 1000>>, <<12, 1000>>>>,
      <<<<15, 1000>>, <<900, 1000>>, <<-850, 1000>>>>,
      <<<<0, 1000>>, <<0, 1000>>>> }

\* the recordings the engine is fed: one block, or two blocks in either order
ProbeRecordings ==
    {<<b>> : b \in ProbeBlocks}
    \cup {<<b1, b2>> : b1, b2 \in { <<<<500, 1000>>, <<300, 1000>>>>,
                                     <<<<4, 1000>>, <<8, 1000>>, <<12, 1000>>>> }}

\* explicit-mode settings within the slider ranges, one with noiseThreshold above
\* preservationThreshold and one with them equal
ProbeExplicit ==
    PresetChoices \cup { [t |-> 10, nT |-> 20, rS |-> 2, hp |-> 10, pT |-> 10],
                         [t |-> 10, nT |-> 10, rS |-> 16, hp |-> 0, pT |-> 10] }

ProbeParams ==
    IF variant = "Simple" THEN {[DefaultParams EXCEPT !.t = v] : v \in {2, 10, 18}}
    ELSE ProbeExplicit

\* a recorder whose script processor was installed with parameters p
Installed(p) ==
    WithNode([FreshRecorder EXCEPT !.closure = p,
                                   !.contexts = <<[state |-> "running", rate |-> SAMPLE_RATE]>>,
                                   !.audioContextRef = 1])

RECURSIVE Feed(_, _)
Feed(r, blocks) ==
    IF blocks = <<>> THEN r ELSE Feed(onaudioprocess(r, 1, Head(blocks)), Tail(blocks))

ProcessCall(blocks, p) ==
    /\ Len(probe) < MaxCalls
    /\ LET r == Feed(Installed(p), blocks)
       IN  probe' = Append(probe, [op |-> "process", mode |-> variant, p |-> p,
                                   blocks |-> blocks,
                                   kept |-> r.originalAudioData,
                                   chunks |-> r.processedChunks])
    /\ UNCHANGED <<variant, neural, audioData, step, params, recs, mounted, player,
                   inflight, session, reproLog, nStarts, nBlocks, nReprocess, nFaults>>

\* a captured block with one sample replaced by a non-finite float, the same
\* block with that sample replaced by zero, both through the installed handler
CorruptValues == {NaN, PlusInfinity, MinusInfinity}

CorruptBlocks ==
    { <<<<200, 1000>>, <<80, 1000>>, <<20, 1000>>>>,
      <<<<15, 1000>>, <<900, 1000>>, <<-850, 1000>>>> }

ProcessCorruptCall(block, i, x, p) ==
    /\ Len(probe) < MaxCalls
    /\ LET corrupt == [block EXCEPT ![i] = x]
           zeroed  == [block EXCEPT ![i] = <<0, 1000>>]
       IN  probe' = Append(probe,
                [op |-> "processCorrupt", mode |-> variant, p |-> p, at |-> i,
                 buffer |-> corrupt,
                 out |-> Feed(Installed(p), <<corrupt>>).processedChunks[1],
                 outZeroed |-> Feed(Installed(p), <<zeroed>>).processedChunks[1]])
    /\ UNCHANGED <<variant, neural, audioData, step, params, recs, mounted, player,
                   inflight, session, reproLog, nStarts, nBlocks, nReprocess, nFaults>>

\* decoded audio handed to the part of decodeAndResampleToFloat32 that follows
\* decodeAudioData: mono and stereo, at the canonical rate and at 44100 Hz
ConstantChannel(n, v) == [i \in 1..n |-> <<v, DecodeScale>>]

AudioBufferWith(sampleRate, channels) ==
    [ sampleRate |-> sampleRate, numberOfChannels |-> Len(channels),
      length |-> Len(channels[1]), channels |-> channels ]

ProbeAudioBuffers ==
    { AudioBufferWith(SAMPLE_RATE, <<ConstantChannel(2, 32768), ConstantChannel(2, -32768)>>),
      AudioBufferWith(SAMPLE_RATE, <<<<<<16384, DecodeScale>>, <<8192, DecodeScale>>>>,
                                     <<<<8192, DecodeScale>>, <<-4096, DecodeScale>>>>>>),
      AudioBufferWith(SAMPLE_RATE, <<<<<<16384, DecodeScale>>, <<-8192, DecodeScale>>>>>>),
      AudioBufferWith(SAMPLE_RATE, <<ConstantChannel(100, 8192)>>),
      AudioBufferWith(44100, <<ConstantChannel(2, 32768), ConstantChannel(2, -32768)>>),
      AudioBufferWith(44100, <<ConstantChannel(2, 8192), ConstantChannel(2, 8192)>>),
      AudioBufferWith(44100, <<ConstantChannel(100, 8192)>>),
      AudioBufferWith(44100, <<ConstantChannel(147, 8192)>>) }

NormalizeCall(audioBuffer) ==
    /\ Len(probe) < MaxCalls
    /\ probe' = Append(probe, [op |-> "normalize", buffer |-> audioBuffer,
                               out |-> normalizeAudioBuffer(audioBuffer)])
    /\ UNCHANGED <<variant, neural, audioData, step, params, recs, mounted, player,
                   inflight, session, reproLog, nStarts, nBlocks, nReprocess, nFaults>>

InitLibrary == Init /\ variant # "Neural"

NextLibrary ==
    \/ \E e \in ProbeEncodes : EncodeCall(e[1], e[2])
    \/ EncodeSilence
    \/ \E k \in DOMAIN probe : DecodeCall(k)
    \/ \E blocks \in ProbeRecordings, p \in ProbeParams : ProcessCall(blocks, p)
    \/ \E block \in CorruptBlocks, x \in CorruptValues, p \in {DefaultParams} :
          \E i \in DOMAIN block : ProcessCorruptCall(block, i, x, p)
    \/ \E audioBuffer \in ProbeAudioBuffers : NormalizeCall(audioBuffer)

SpecLibrary == InitLibrary /\ [][NextLibrary]_vars

\* ------------------------------------------------------------------ claims

\* C1: the finalized original buffer is the concatenation, in arrival order, of
\* exactly the blocks that arrived between start and stop, and the finalized
\* processed buffer is the concatenation of their engine outputs; both have N*B
\* samples.  The containers Home holds are compared with the encoding of the
\* blocks the session received while its MediaRecorder was recording.
C1_FinalizedIsSessionBlocks ==
    (audioData # <<>> /\ session # <<>>) =>
        /\ audioData[1].original =
               float32ArrayToWavBlob(Flatten(session[1].arrived), SAMPLE_RATE)
        /\ audioData[1].processed =
               float32ArrayToWavBlob(Flatten(session[1].arrivedOut), SAMPLE_RATE)

C3_OneStateAtATime ==
    ~(ShowsPlayer /\ \E i \in DOMAIN recs : recs[i].recorder \in {"recording", "stopping"})

\* C4: a block is appended to the accumulators only while the pipeline is in
\* Recording: every step that makes an accumulator longer starts in a state where
\* that recorder is recording.
C4_AppendOnlyWhileRecording ==
    [][\A i \in DOMAIN recs :
          (\/ Len(recs'[i].originalAudioData) > Len(recs[i].originalAudioData)
           \/ Len(recs'[i].processedChunks) > Len(recs[i].processedChunks))
          => recs[i].isRecording]_vars

\* C5: an operation attempted outside its valid state fails with InvalidStateError
\* instead of being executed or silently ignored: a block the capture device
\* delivers to a recorder whose MediaRecorder is not recording leaves the
\* accumulators as they were and reports the error.
C5_InvalidStateReported ==
    [][\A i \in DOMAIN recs :
          (/\ nBlocks' > nBlocks
           /\ recs'[i] # recs[i]
           /\ recs[i].recorder # "recording")
          => /\ recs'[i].originalAudioData = recs[i].originalAudioData
             /\ recs'[i].processedChunks = recs[i].processedChunks
             /\ recs'[i].error = "InvalidStateError"]_vars

\* what finalization leaves behind: the stream stopped, the processing graph's
\* context no longer running, both accumulators empty
Released(r) ==
    /\ r.stream = "stopped"
    /\ r.audioContextRef # 0 => r.contexts[r.audioContextRef].state # "running"
    /\ r.originalAudioData = <<>>
    /\ r.processedChunks = <<>>
    /\ ~r.isProcessing

\* C6: whenever finalization runs, whether it delivered the containers or raised,
\* it stops the stream, closes the processing graph and clears both accumulators.
C6_CleanupUnconditional ==
    [][\A i \in DOMAIN recs :
          (recs[i].recorder = "stopping" /\ recs'[i].recorder # "stopping")
          => Released(recs'[i])]_vars

\* C6 witness: a finalization that raised has run and released everything
C6_Witness ==
    \E i \in DOMAIN recs :
        /\ recs[i].recorder = "inactive"
        /\ recs[i].error = "process"
        /\ Released(recs[i])

\* C7: a start whose audio context reports a rate other than SAMPLE_RATE fails and
\* never enters Recording: every recording session runs on a 48000 Hz context.
C7_RecordingOnlyAtSampleRate ==
    \A i \in DOMAIN recs :
        recs[i].isRecording =>
            recs[i].contexts[recs[i].audioContextRef].rate = SAMPLE_RATE

\* C8: a reprocess that fails leaves the original container and the processed
\* container being shown exactly as they were, and the reprocessing flag of the
\* player that asked goes back to false.
C8_FailedReprocessKeepsContainers ==
    [][\A req \in inflight :
          (req \notin inflight' /\ nFaults' > nFaults)
          => /\ audioData' = audioData
             /\ player'.reprocessedBlob = player.reprocessedBlob
             /\ PlayerMounted => getAudioBlob' = getAudioBlob
             /\ (PlayerMounted /\ player.gen = req.call.gen) => ~player'.isReprocessing]_vars

\* C8 witness: a reprocess was asked for and failed, the player is ready again
C8_Witness ==
    /\ PlayerMounted
    /\ nReprocess = 1 /\ inflight = {} /\ reproLog = <<>>
    /\ ~player.isReprocessing
    /\ player.reprocessedBlob = <<>>

\* C9: reprocess is deterministic: any two successful reprocess calls on the same
\* stored original container with the same intensity give identical containers,
\* whatever reprocess calls came in between.
C9_ReprocessDeterministic ==
    \A a, b \in DOMAIN reproLog :
        (reproLog[a].stored = reproLog[b].stored /\ reproLog[a].t = reproLog[b].t)
        => reproLog[a].result = reproLog[b].result

\* C9 witness: the same original was reprocessed with one intensity, then with
\* another, then with the first again
C9_Witness ==
    /\ Len(reproLog) = 3
    /\ reproLog[1].stored = reproLog[2].stored /\ reproLog[2].stored = reproLog[3].stored
    /\ reproLog[1].t = reproLog[3].t /\ reproLog[2].t # reproLog[1].t
    /\ reproLog[2].result # reproLog[1].result

\* C10: a reprocess changes only the processed container: it leaves the original
\* container Home holds untouched, and when it succeeds the processed container
\* the player shows is that call's result: the engine run on the original the
\* call was given, with the call's intensity, re-encoded.
C10_ReprocessOnlyProcessed ==
    [][\A req \in inflight :
          req \notin inflight'
          => /\ audioData' = audioData
             /\ (nFaults' = nFaults /\ PlayerMounted /\ player.gen = req.call.gen)
                => /\ player'.reprocessedBlob # <<>>
                   /\ player'.reprocessedBlob[1] =
                          reprocessBlob(req.stored, req.call.t)]_vars

\* C10 witness: the player shows a reprocessed container that differs from the
\* processed container the recorder delivered, with the original side selected
C10_Witness ==
    /\ PlayerMounted
    /\ player.reprocessedBlob # <<>>
    /\ player.reprocessedBlob[1] # audioData[1].processed
    /\ player.reprocessedBlob[1] = reprocessBlob(audioData[1].original, params.t)
    /\ player.currentAudio = "original"

\* C11: when a session in Recording is cancelled abruptly (its recorder is torn
\* down without stop), the session leaves Recording, the accumulated blocks are
\* discarded and the capture source is released, so that none of that recorder's
\* block callbacks can run afterwards.
C11_CancelReleasesSession ==
    [][\A i \in DOMAIN recs :
          (mounted = i /\ mounted' # i /\ recs[i].recorder = "recording")
          => /\ recs'[i].recorder # "recording"
             /\ ~recs'[i].isRecording
             /\ recs'[i].originalAudioData = <<>>
             /\ recs'[i].processedChunks = <<>>
             /\ recs'[i].stream # "live"
             /\ \A h \in DOMAIN recs'[i].handlers : ~NodeFires(recs'[i], h)]_vars

\* a container whose size fields agree with its byte length, as one encode call
\* over one buffer leaves them
CodecBuilt(blob) ==
    /\ blob.fileSize = ByteLength(blob) - 8
    /\ blob.dataSize = ByteLength(blob) - WavHeaderBytes

\* C12: every container delivered through onRecordingComplete and every container
\* produced by reprocess is the output of one encode call over one contiguous
\* buffer: its RIFF size field is its byte length minus 8 and its data size field
\* is its byte length minus 44.
C12_ContainersFromCodec ==
    /\ audioData # <<>> =>
          CodecBuilt(audioData[1].original) /\ CodecBuilt(audioData[1].processed)
    /\ player.reprocessedBlob # <<>> => CodecBuilt(player.reprocessedBlob[1])

\* the unsigned 32-bit value held by two little-endian 16-bit words
LE32(lo, hi) == (lo % 65536) + 65536 * (hi % 65536)

\* C13: for a buffer of N samples and sample rate r, encode produces 44 + 2N bytes
\* whose header holds 'RIFF', fileSize 36 + 2N, 'WAVE', 'fmt ', subchunk size 16,
\* audioFormat 1, numChannels 1, sampleRate r, byteRate 2r, blockAlign 2,
\* bitsPerSample 16, 'data', dataSize 2N, the numbers little-endian at their
\* offsets in the 44 header bytes.
C13_EncodeHeader ==
    \A k \in DOMAIN probe :
        probe[k].op \in {"encode", "encodeSecond"} =>
            LET N == IF probe[k].op = "encode" THEN Len(probe[k].buffer) ELSE probe[k].samples
                r == probe[k].rate
                b == IF probe[k].op = "encode" THEN probe[k].blob ELSE probe[k].header
                h == HeaderWords(b)
            IN  /\ probe[k].bytes = 44 + 2 * N
                /\ probe[k].op = "encode" => Len(b.pcm) = N
                /\ 2 * Len(h) = 44
                /\ b.chunkId = "RIFF" /\ b.format = "WAVE"
                /\ b.subchunk1Id = "fmt " /\ b.subchunk2Id = "data"
                /\ b.fileSize = 36 + 2 * N /\ LE32(h[3], h[4]) = 36 + 2 * N
                /\ b.subchunk1Size = 16 /\ LE32(h[9], h[10]) = 16
                /\ b.audioFormat = 1 /\ h[11] = 1
                /\ b.numChannels = 1 /\ h[12] = 1
                /\ b.sampleRate = r /\ LE32(h[13], h[14]) = r
                /\ b.byteRate = 2 * r /\ LE32(h[15], h[16]) = 2 * r
                /\ b.blockAlign = 2 /\ h[17] = 2
                /\ b.bitsPerSample = 16 /\ h[18] = 16
                /\ b.dataSize = 2 * N /\ LE32(h[21], h[22]) = 2 * N

\* C13 witness: one second of samples was encoded into 96044 bytes
C13_Witness ==
    \E k \in DOMAIN probe :
        /\ probe[k].op = "encodeSecond"
        /\ probe[k].samples = 48000
        /\ probe[k].bytes = 96044
        /\ probe[k].header.fileSize = 96036
        /\ probe[k].silent

\* C14: encode clamps each sample to [-1, 1], then stores a negative sample as
\* sample * 32768 and a non-negative one as sample * 32767 with the fraction
\* discarded: 1.0 gives 32767, -1.0 gives -32768, and a sample outside [-1, 1] is
\* stored as 32767 or -32768, never wrapped.
C14_ClampThenScale ==
    \A k \in DOMAIN probe :
        probe[k].op = "encode" =>
            \A i \in DOMAIN probe[k].buffer :
                LET m == probe[k].buffer[i][1]
                    d == probe[k].buffer[i][2]
                    q == probe[k].blob.pcm[i]
                IN  /\ q \in -32768..32767
                    /\ m >= d => q = 32767
                    /\ m <= -d => q = -32768
                    /\ (0 <= m /\ m < d) =>
                          q >= 0 /\ q * d <= m * 32767 /\ m * 32767 < (q + 1) * d
                    /\ (-d < m /\ m < 0) =>
                          q <= 0 /\ q * d >= m * 32768 /\ m * 32768 > (q - 1) * d

\* C14 witness: [1.0, -1.0] was encoded as [32767, -32768] and 1.1 as 32767
C14_Witness ==
    /\ Len(probe) = 2
    /\ probe[1].op = "encode" /\ probe[2].op = "encode"
    /\ probe[1].buffer = <<<<1000, 1000>>, <<-1000, 1000>>>>
    /\ probe[1].blob.pcm = <<32767, -32768>>
    /\ probe[2].buffer = <<<<1100, 1000>>>>
    /\ probe[2].blob.pcm = <<32767>>

\* a decode call that read a container of the canonical rate back, and a sample
\* of it that lies in [-1, 1]
RoundTrip(k, i) ==
    /\ probe[k].op = "decode"
    /\ probe[k].blob.sampleRate = SAMPLE_RATE
    /\ i \in DOMAIN probe[k].buffer
    /\ Abs(probe[k].buffer[i][1]) <= probe[k].buffer[i][2]

\* |m/d - v/32768| as a multiple of 1/(32768 * d), for sample m/d read back as
\* v/32768
RoundTripError(k, i) ==
    Abs(probe[k].buffer[i][1] * DecodeScale - probe[k].decoded[i][1] * probe[k].buffer[i][2])

\* C15, as claimed: a sample in [-1, 1] that is encoded and decoded back comes
\* back within 1/32767 of its value.
C15_RoundTripWithin32767th ==
    \A k \in DOMAIN probe : \A i \in 1..2 :
        RoundTrip(k, i) =>
            /\ probe[k].decoded[i][2] = DecodeScale
            /\ RoundTripError(k, i) * 32767 <= probe[k].buffer[i][2] * DecodeScale

\* C15, amended: a sample in [-1, 1] that is encoded and decoded back comes back
\* less than 2/32768 away from its value, never larger in magnitude, and less than
\* 1/32768 away when the sample is not positive.
C15_RoundTripWithinTwoSteps ==
    \A k \in DOMAIN probe : \A i \in 1..2 :
        RoundTrip(k, i) =>
            LET m == probe[k].buffer[i][1]
                d == probe[k].buffer[i][2]
                v == probe[k].decoded[i][1]
            IN  /\ probe[k].decoded[i][2] = DecodeScale
                /\ Len(probe[k].decoded) = Len(probe[k].buffer)
                /\ RoundTripError(k, i) < 2 * d
                /\ m <= 0 => RoundTripError(k, i) < d
                /\ Abs(v) * d <= Abs(m) * DecodeScale

\* C15 witness: 0.999 was encoded and decoded back more than 1/32767 away
C15_Witness ==
    \E k \in DOMAIN probe :
        /\ RoundTrip(k, 1)
        /\ probe[k].buffer[1] = <<999, 1000>>
        /\ probe[k].decoded[1] = <<32734, DecodeScale>>
        /\ RoundTripError(k, 1) * 32767 > probe[k].buffer[1][2] * DecodeScale

\* exact comparison of rationals whose cross products exceed TLC's integers: the
\* product a * b as <<quotient, remainder>> by 10^9, for a, b >= 0
BigProd(a, b) == MulDivQR(a, b, 1000000000)

\* n1/d1 = n2/d2, for d1, d2 > 0
RatEq(n1, d1, n2, d2) ==
    /\ (n1 >= 0) = (n2 >= 0)
    /\ BigProd(Abs(n1), d2) = BigProd(Abs(n2), d1)

\* n1/d1 <= n2/d2, for n1, n2 >= 0 and d1, d2 > 0
RatLeq(n1, d1, n2, d2) ==
    LET x == BigProd(n1, d2)
        y == BigProd(n2, d1)
    IN  x[1] < y[1] \/ (x[1] = y[1] /\ x[2] <= y[2])

\* the engine calls of mode "Simple" (adaptive) or "Audio" (explicit)
EngineCalls(mode) == {k \in DOMAIN probe : probe[k].op = "process" /\ probe[k].mode = mode}

\* C16: in both modes the engine returns, for every block (the empty one
\* included), a new buffer of the block's length, the block itself is kept as it
\* came, and the output depends only on the block and the parameters: the same
\* block under the same parameters gives the same output wherever it stands in
\* a recording and whatever call came before.
C16_EnginePure ==
    /\ \A k \in DOMAIN probe :
          probe[k].op = "process" =>
              /\ probe[k].kept = probe[k].blocks
              /\ Len(probe[k].chunks) = Len(probe[k].blocks)
              /\ \A j \in DOMAIN probe[k].blocks :
                    Len(probe[k].chunks[j]) = Len(probe[k].blocks[j])
    /\ \A k1, k2 \in DOMAIN probe :
          (probe[k1].op = "process" /\ probe[k2].op = "process" /\ probe[k1].p = probe[k2].p)
          => \A j1 \in DOMAIN probe[k1].blocks, j2 \in DOMAIN probe[k2].blocks :
                probe[k1].blocks[j1] = probe[k2].blocks[j2]
                => probe[k1].chunks[j1] = probe[k2].chunks[j2]

\* C16 witness: two recordings of the same two blocks in opposite order were
\* processed under the same parameters, and the engine changed the samples
C16_Witness ==
    /\ Len(probe) = 2
    /\ probe[1].op = "process" /\ probe[2].op = "process"
    /\ probe[1].p = probe[2].p
    /\ Len(probe[1].blocks) = 2 /\ Len(probe[2].blocks) = 2
    /\ probe[1].blocks[1] # probe[1].blocks[2]
    /\ probe[1].blocks[1] = probe[2].blocks[2] /\ probe[1].blocks[2] = probe[2].blocks[1]
    /\ probe[1].chunks[1] = probe[2].chunks[2]
    /\ probe[1].chunks[1] # probe[1].blocks[1]

\* the multiplier, in ten-thousandths, the adaptive mode is to apply to a sample of
\* amplitude a (thousandths) in a block of n samples whose amplitudes sum to sum,
\* at intensity t (twentieths): voiceThreshold = avg * (1.5 - 0.5t), noiseThreshold =
\* avg * (0.3 - 0.2t)
AdaptiveMultiplier(a, n, sum, t) ==
    IF 40 * a * n > (60 - t) * sum THEN 11000
    ELSE IF 100 * a * n > (30 - t) * sum THEN 10000 - (5000 + 200 * t)
    ELSE 10000 - (8000 + 95 * t)

\* C17: in adaptive mode every output sample is the input sample times 1.1 when
\* its amplitude a > voiceThreshold, times 1 - (0.5 + 0.4t) when noiseThreshold <
\* a <= voiceThreshold, and times 1 - (0.8 + 0.19t) when a <= noiseThreshold.
C17_AdaptiveMultipliers ==
    \A k \in EngineCalls("Simple") : \A j \in DOMAIN probe[k].blocks :
        LET block == probe[k].blocks[j]
            out   == probe[k].chunks[j]
        IN  \A i \in DOMAIN block :
                RatEq(out[i][1], out[i][2],
                      block[i][1] * AdaptiveMultiplier(Abs(block[i][1]), Len(block),
                                                       SumAbs(block), probe[k].p.t),
                      10000000)

\* C17 witness: [0.2, 0.08, 0.02] (mean amplitude 0.1) at intensity 0.5 came out
\* as 0.2 * 1.1, 0.08 * 0.30 and 0.02 * 0.105
C17_Witness ==
    \E k \in EngineCalls("Simple") :
        /\ probe[k].p.t = 10
        /\ probe[k].blocks = <<<<<<200, 1000>>, <<80, 1000>>, <<20, 1000>>>>>>
        /\ probe[k].chunks =
               <<<<<<2200000, 10000000>>, <<240000, 10000000>>, <<21000, 10000000>>>>>>

\* the samples of an explicit-mode call that show the gate alone: no high-pass
\* term (first sample of a block, or strength 0) and no compression
GateAlone(k, j, i) ==
    /\ i = 1 \/ probe[k].p.hp = 0
    /\ ~(Abs(probe[k].blocks[j][i][1]) > probe[k].p.pT /\ Abs(probe[k].blocks[j][i][1]) > 800)

\* C18, as claimed: the gate multiplies a sample of amplitude a by
\* reductionStrength when a < noiseThreshold, by the linear interpolation when
\* noiseThreshold <= a < preservationThreshold, and by 1 when a >=
\* preservationThreshold, also when noiseThreshold >= preservationThreshold.
C18_GateAsClaimed ==
    \A k \in EngineCalls("Audio") : \A j \in DOMAIN probe[k].blocks :
        \A i \in DOMAIN probe[k].blocks[j] :
            GateAlone(k, j, i) =>
                LET p   == probe[k].p
                    m   == probe[k].blocks[j][i][1]
                    a   == Abs(m)
                    out == probe[k].chunks[j][i]
                IN  /\ a < p.nT => RatEq(out[1], out[2], m * p.rS, 20 * 1000)
                    /\ (p.nT <= a /\ a < p.pT) =>
                          RatEq(out[1], out[2],
                                m * (p.rS * (p.pT - p.nT) + (a - p.nT) * (20 - p.rS)),
                                20 * (p.pT - p.nT) * 1000)
                    /\ a >= p.pT => RatEq(out[1], out[2], m, 1000)

\* C18, amended: the gate multiplies by reductionStrength when a < noiseThreshold,
\* by the interpolation when noiseThreshold <= a < preservationThreshold, and by 1
\* when a is at least both thresholds; the multiplier lies in [reductionStrength,
\* 1], its denominator is never 0, and with noiseThreshold >= preservationThreshold
\* there is no interpolation.
C18_GateElseIf ==
    \A k \in EngineCalls("Audio") : \A j \in DOMAIN probe[k].blocks :
        \A i \in DOMAIN probe[k].blocks[j] :
            GateAlone(k, j, i) =>
                LET p   == probe[k].p
                    m   == probe[k].blocks[j][i][1]
                    a   == Abs(m)
                    out == probe[k].chunks[j][i]
                IN  /\ a < p.nT => RatEq(out[1], out[2], m * p.rS, 20 * 1000)
                    /\ (p.nT <= a /\ a < p.pT) =>
                          RatEq(out[1], out[2],
                                m * (p.rS * (p.pT - p.nT) + (a - p.nT) * (20 - p.rS)),
                                20 * (p.pT - p.nT) * 1000)
                    /\ (a >= p.pT /\ a >= p.nT) => RatEq(out[1], out[2], m, 1000)
                    /\ out[2] > 0
                    /\ RatLeq(Abs(out[1]), out[2], a, 1000)
                    /\ RatLeq(a * p.rS, 20 * 1000, Abs(out[1]), out[2])

\* C18 witness: with noiseThreshold 0.020 above preservationThreshold 0.010 a
\* sample of amplitude 0.015 was multiplied by reductionStrength 0.1
C18_Witness ==
    \E k \in EngineCalls("Audio") :
        /\ probe[k].p.nT = 20 /\ probe[k].p.pT = 10 /\ probe[k].p.rS = 2
        /\ Len(probe[k].blocks) = 1 /\ Len(probe[k].blocks[1]) = 3
        /\ probe[k].blocks[1][1] = <<15, 1000>>
        /\ GateAlone(k, 1, 1)
        /\ RatEq(probe[k].chunks[1][1][1], probe[k].chunks[1][1][2], 15 * 2, 20 * 1000)

\* the samples of an explicit-mode call that the compression leaves alone
Uncompressed(k, j, i) ==
    ~(Abs(probe[k].blocks[j][i][1]) > probe[k].p.pT /\ Abs(probe[k].blocks[j][i][1]) > 800)

\* the gated value of sample i of a block, as <<numerator, denominator>>
GatedSample(block, i, p) ==
    LET f == GateFactor(Abs(block[i][1]), p)
    IN  <<block[i][1] * f[1], 1000 * f[2]>>

\* C19: the high-pass step gives, for every index i > 0 of a block,
\* gated[i] * (1 - highPassStrength) - input[i-1] * highPassStrength from the gated
\* current sample and the raw previous sample of the same block, and leaves index
\* 0 as the gated value: the first sample of every block of a recording has no
\* high-pass term.
C19_HighPassWithinBlock ==
    \A k \in EngineCalls("Audio") : \A j \in DOMAIN probe[k].blocks :
        \A i \in DOMAIN probe[k].blocks[j] :
            Uncompressed(k, j, i) =>
                LET p     == probe[k].p
                    block == probe[k].blocks[j]
                    f     == GateFactor(Abs(block[i][1]), p)
                    out   == probe[k].chunks[j][i]
                IN  IF i = 1 THEN RatEq(out[1], out[2], block[i][1] * f[1], 1000 * f[2])
                    ELSE RatEq(out[1], out[2],
                               block[i][1] * f[1] * (200 - p.hp) - block[i - 1][1] * p.hp * f[2],
                               1000 * f[2] * 200)

\* C19 witness: a recording of two blocks was processed with a high-pass strength
\* above 0; the second block starts with its gated value although the first
\* block ended on a non-zero sample, and its second sample carries the term
C19_Witness ==
    \E k \in EngineCalls("Audio") :
        /\ probe[k].p = DefaultParams
        /\ probe[k].blocks = << <<<<500, 1000>>, <<300, 1000>>>>,
                                <<<<4, 1000>>, <<8, 1000>>, <<12, 1000>>>> >>
        /\ RatEq(probe[k].chunks[2][1][1], probe[k].chunks[2][1][2], 4 * 6, 20 * 1000)
        /\ ~RatEq(probe[k].chunks[2][2][1], probe[k].chunks[2][2][2],
                  GatedSample(probe[k].blocks[2], 2, probe[k].p)[1],
                  GatedSample(probe[k].blocks[2], 2, probe[k].p)[2])

\* the sample after gate and high-pass, as <<numerator, denominator>>
PostFilter(block, i, p) ==
    LET f == GateFactor(Abs(block[i][1]), p)
    IN  HighPass(<<block[i][1] * f[1], 1000 * f[2]>>, f,
                 IF i > 1 THEN block[i - 1][1] ELSE 0, i, p)

\* C20: the soft limiter acts on the post-filter sample: when the amplitude of the
\* sample after gate and high-pass exceeds 0.8 the output is sign * (0.8 +
\* (amplitude - 0.8) * 0.5) with that post-filter amplitude, otherwise the
\* post-filter sample is the output.
C20_LimiterOnPostFilter ==
    \A k \in EngineCalls("Audio") : \A j \in DOMAIN probe[k].blocks :
        \A i \in DOMAIN probe[k].blocks[j] :
            LET post == PostFilter(probe[k].blocks[j], i, probe[k].p)
                out  == probe[k].chunks[j][i]
            IN  IF 10 * Abs(post[1]) > 8 * post[2]
                THEN RatEq(out[1], out[2],
                           (IF post[1] < 0 THEN -1 ELSE 1) * (4 * post[2] + 5 * Abs(post[1])),
                           10 * post[2])
                ELSE RatEq(out[1], out[2], post[1], post[2])

\* C21: a non-finite input sample is treated as zero before processing: the
\* output at its index is zero, and the output at every other index is what the
\* engine gives for the same buffer with that sample replaced by zero.
C21_NonFiniteTreatedAsZero ==
    \A k \in DOMAIN probe :
        probe[k].op = "processCorrupt" =>
            /\ probe[k].out[probe[k].at][1] = 0 /\ probe[k].out[probe[k].at][2] # 0
            /\ \A j \in DOMAIN probe[k].buffer :
                  j # probe[k].at => probe[k].out[j] = probe[k].outZeroed[j]

\* C22: each block is processed with the live parameter values as they are when
\* its processing starts: the processed block a block callback appends is the
\* engine's output for that block under the parameters Home holds at that moment.
C22_BlocksUseLiveParameters ==
    [][\A i \in DOMAIN recs :
          Len(recs'[i].processedChunks) = Len(recs[i].processedChunks) + 1
          => recs'[i].processedChunks[Len(recs'[i].processedChunks)] =
                 Engine(recs'[i].originalAudioData[Len(recs'[i].originalAudioData)],
                        params)]_vars

\* the 0.1 step grid from 0.1 to 0.9, in twentieths
IntensityGrid == {2 * k : k \in 1..9}

\* C23: after any sequence of slider changes in any recorder or player view the
\* intensity the application holds, and the intensity of every reprocess call, is
\* a value in [0.1, 0.9] on the 0.1 step grid.
C23_IntensityOnGrid ==
    /\ params.t \in IntensityGrid
    /\ \A req \in inflight : req.call.t \in IntensityGrid
    /\ \A k \in DOMAIN reproLog : reproLog[k].t \in IntensityGrid

\* the normalize calls
NormalizeCalls == {k \in DOMAIN probe : probe[k].op = "normalize"}

\* the arithmetic mean over the channels, frame by frame
ChannelMean(buffer) ==
    [i \in 1..buffer.length |->
        <<SumChannels(buffer.channels, i), DecodeScale * buffer.numberOfChannels>>]

\* C24: normalize mixes a multi-channel buffer down to mono so that the output
\* is the arithmetic mean over the channels, frame by frame, on the same-rate
\* path and (before the rate conversion) on the resampling path, and gives
\* already-mono input at the canonical rate back unchanged.
C24_MixdownIsMean ==
    \A k \in NormalizeCalls :
        LET buffer   == probe[k].buffer
            expected == IF buffer.sampleRate = SAMPLE_RATE THEN ChannelMean(buffer)
                        ELSE Resample(ChannelMean(buffer), buffer.sampleRate)
        IN  /\ Len(probe[k].out) = Len(expected)
            /\ \A i \in DOMAIN expected :
                  RatEq(probe[k].out[i][1], probe[k].out[i][2], expected[i][1], expected[i][2])
            /\ (buffer.sampleRate = SAMPLE_RATE /\ buffer.numberOfChannels = 1)
               => probe[k].out = buffer.channels[1]

\* C25: when the decoded audio's rate differs from 48000, normalize returns
\* exactly ceil(originalLength * 48000 / nativeRate) samples; at 48000 the length
\* is unchanged.
C25_ResampledLength ==
    \A k \in NormalizeCalls :
        LET buffer == probe[k].buffer
        IN  Len(probe[k].out) =
                IF buffer.sampleRate = SAMPLE_RATE THEN buffer.length
                ELSE CeilMulDiv(buffer.length, SAMPLE_RATE, buffer.sampleRate)

\* C26: both accumulators are empty whenever a session enters Recording, so no
\* block left over from an earlier session, from a failed start attempt or from
\* a callback after a finalization's cleanup appears in a later recording.
C26_AccumulatorsEmptyOnStart ==
    [][\A i \in DOMAIN recs :
          (~recs[i].isRecording /\ recs'[i].isRecording)
          => /\ recs'[i].originalAudioData = <<>>
             /\ recs'[i].processedChunks = <<>>]_vars

\* C27: in the neural recorder onRecordingComplete is invoked at most once per
\* recording session, and its payload (a snapshot of the chunk list, so in order
\* and paired) holds every chunk of that session, also when a chunk is added
\* after recording has stopped while an earlier combine is still awaiting its
\* fetches.
C27_NeuralCompletesOnce ==
    /\ Len(neural.delivered) <= 1
    /\ \A a \in DOMAIN neural.delivered : neural.delivered[a] = neural.produced

\* C28: a start attempt that fails ends with every stream it obtained stopped and
\* with no onaudioprocess handler of its own left installed, so that in Idle
\* after a failed start no capture resource is held and no blocks accumulate.
C28_FailedStartReleases ==
    [][\A i \in DOMAIN recs :
          (recs[i].pc = "starting" /\ recs'[i].error = "start")
          => /\ recs'[i].leaked = recs[i].leaked
             /\ recs'[i].handlers = recs[i].handlers]_vars

\* C30: whenever the comparison view shows "Processing Parameters Used", the four
\* values shown are those of the parameters with which every block of the
\* displayed processed container was processed, whatever recordings, tab
\* switches and preset clicks came before.
C30_DisplayedParametersUsed ==
    (AudioPlayerShown /\ session # <<>>)
    => \A k \in DOMAIN session[1].arrivedWith :
          ParameterDisplay(params) = ParameterDisplay(session[1].arrivedWith[k])

\* recorder instance i is Finalizing: stop() was called, the stop event is due
Finalizing(i) == i \in DOMAIN recs /\ recs[i].recorder = "stopping"

\* recorder instance i has left Finalizing with exactly one outcome: one
\* onRecordingComplete call and no processing error, or a processing error and
\* no call
Finalized(i) ==
    /\ i \in DOMAIN recs
    /\ recs[i].recorder = "inactive"
    /\ ~recs[i].isProcessing
    /\ \/ recs[i].completions = 1 /\ recs[i].error # "process"
       \/ recs[i].completions = 0 /\ recs[i].error = "process"

\* C29: once stop has been requested in Recording, and given that the recorder's
\* stop event is delivered, the recorder eventually leaves Finalizing with the
\* processing flag false and exactly one outcome: both containers delivered in
\* one onRecordingComplete call, or an error reported and nothing delivered.
C29_FinalizingEnds ==
    \A i \in 1..MaxMounts : Finalizing(i) ~> Finalized(i)

\* C29 witness: a recorder whose stop was requested has delivered its containers
C29_Witness ==
    \E i \in DOMAIN recs :
        /\ recs[i].recorder = "inactive" /\ ~recs[i].isProcessing
        /\ recs[i].completions = 1 /\ recs[i].error # "process"
        /\ audioData # <<>>
====
